---- MODULE Spec2Model ----
(***************************************************************************)
(* State-machine model of the CloudFront cache-flow canvas animation       *)
(* (slides/slide-20-canvas.js): the animator's state record, the browser's *)
(* pending animation-frame callbacks and timeouts, and one action per      *)
(* public operation, DOM event handler and browser callback.               *)
(*                                                                         *)
(* Times are in milliseconds.  Drawing calls have no effect on the state   *)
(* and are left out; every assignment, guard and early return is kept.     *)
(***************************************************************************)
EXTENDS Integers, Sequences, FiniteSets, TLC

VARIABLES
  rafId,          \* state.rafId: handle of the frame callback the animator remembers
  isPlaying,      \* state.isPlaying
  isFinished,     \* state.isFinished
  destroyed,      \* state.destroyed
  runIndex,       \* state.runIndex
  replayTimer,    \* state.replayTimer: handle of the auto-replay timeout
  edgesState,     \* state.edgesState[i].cached, i in 0..edgesCount-1 (empty before sizing)
  regionalState,  \* state.regionalState[i].cached
  requests,       \* state.requests
  invalidations,  \* state.invalidations
  resizeTimer,    \* the closure variable resizeTimer
  rafCallbacks,   \* browser: handles of the frame callbacks still pending, oldest first
  timeouts,       \* browser: pending setTimeout callbacks [id, kind, due]
  clock,          \* browser: performance.now()
  lastFrame,      \* browser: timestamp of the last frame it delivered
  started,        \* start() has run (listeners attached)
  calls,          \* history: number of host calls and user events so far
  drops,          \* history: number of frames the browser skipped while a callback was pending
  stopped,        \* history: time gone by with no frame callback pending since the last delivered frame
  paths,          \* history: paths[i] lists the states requests[i] has entered
  seeded,         \* history: number of setupRun calls so far, saturating at 2
  log,            \* history: the commit points the last operation went through
  page,           \* the slide's DOM as init(scope) finds and leaves it
  deck,           \* app.js: the presentation, its pending fetches and timeouts
  pdf,            \* scripts/images-to-pdf.js: the file system it finds and its outcome
  layout          \* state.layout and the node lookups of the requests under a given userEdgeMap

animatorVars ==
  <<rafId, isPlaying, isFinished, destroyed, runIndex, replayTimer,
    edgesState, regionalState, requests, invalidations, resizeTimer,
    rafCallbacks, timeouts, clock, lastFrame, started, calls, drops, stopped,
    paths, seeded, log>>
hostVars == <<page, deck, pdf, layout>>
vars == <<animatorVars, hostVars>>

-----------------------------------------------------------------------------
(* Configuration: ANIM_CONFIG and the literals of the source.              *)

usersCount == 4
edgesCount == 3
regionalCount == 2
userEdgeMap == <<0, 1, 2, 2>>
sequential == TRUE
userStaggerMs == 350
requestTravelMs == 1400
fetchFromOriginMs == 1400
cacheStoreMs == 900
hitTravelMs == 700
gapMs == 700
invalidationTravelTime == 800
invalidationEdgeExtraMs == 400
resizeDebounceMs == 120
defaultDurationMs == 1000

\* JavaScript null for a handle (handles are positive) and the Infinity
\* start time of a request waiting for its predecessor.
Null == 0
Infinity == -1

-----------------------------------------------------------------------------
(* Bounds of the model.                                                    *)

\* The clock moves in steps of Quantum.
Quantum == 700
\* How far the timestamp of a frame may lie behind the clock reading of a
\* handler that ran before the frame's callbacks.
SkewMs == 10
\* Longest request list and invalidation list, and most frame callbacks pending at once.
MaxRequests == 5
MaxInvalidations == 2
MaxRaf == 2
\* Spec, every operation over the whole of a first run and its replay: the
\* clock stops at Quantum * MaxTicks, with at most MaxCalls host calls and user
\* events (clicks, resizes) and at most MaxDrops frames skipped by the browser.
MaxTicks == 48
MaxCalls == 1
MaxDrops == 1
\* SpecShort, the operations over the first requests of a run.
MaxShortTicks == 16
MaxShortCalls == 1
MaxShortDrops == 1
\* SpecWide, several host calls early in a run.
MaxWideTicks == 9
MaxWideCalls == 3
MaxWideDrops == 1
\* SpecLate, the operations from the last request of a first run on: the host
\* and the user leave the animation alone until the clock reads
\* Quantum * LateFrom.
LateFrom == 36
MaxLateTicks == 41
MaxLateCalls == 2
MaxLateDrops == 1
\* SpecRun, the run nobody interferes with.
MaxRunTicks == 60
MaxRunDrops == 2
ClickFrom == 36
MaxClickTicks == 46
MaxClickCalls == 2
MaxClickDrops == 1
MaxInvalTicks == 16
MaxInvalCalls == 2
MaxInvalDrops == 1
OrderFrom == 16
MaxOrderTicks == 22
MaxOrderCalls == 2
MaxOrderDrops == 1
MaxNavs == 3
MaxEntries == 3
MaxBelow == 1
MaxAbove == 1

-----------------------------------------------------------------------------
(* Helpers.                                                                *)

Min(a, b) == IF a <= b THEN a ELSE b
Max(a, b) == IF a >= b THEN a ELSE b

Users == 0 .. usersCount - 1
Edges == 0 .. edgesCount - 1
Regionals == 0 .. regionalCount - 1

\* Math.round(a / b) for a >= 0, b > 0.
RoundDiv(a, b) == (2 * a + b) \div (2 * b)

\* Edges dealt to the regionals round-robin instead of in contiguous blocks.
edgesToRegional_roundRobin(e) == e % regionalCount

\* layout.edgesToRegional[e]
edgesToRegional(e) == (e * regionalCount) \div edgesCount

\* layout.users[i].assignedEdgeIndex
assignedEdgeIndexOf(map, i) ==
  IF i + 1 \in DOMAIN map
    THEN Min(edgesCount - 1, map[i + 1])
    ELSE RoundDiv(i * (edgesCount - 1), Max(1, usersCount - 1))
assignedEdgeIndex(i) == assignedEdgeIndexOf(userEdgeMap, i)

\* The smallest positive handle not in `used`: a handle the browser has never
\* handed out as far as any holder of a handle can tell.
FreshHandle(used) == CHOOSE n \in 1 .. Cardinality(used) + 1 :
                        n \notin used /\ \A m \in 1 .. n - 1 : m \in used

\* The whole state as one record, so that handlers compose as functions.
World ==
  [rafId |-> rafId, isPlaying |-> isPlaying, isFinished |-> isFinished,
   destroyed |-> destroyed, runIndex |-> runIndex, replayTimer |-> replayTimer,
   edgesState |-> edgesState, regionalState |-> regionalState,
   requests |-> requests, invalidations |-> invalidations,
   resizeTimer |-> resizeTimer, rafCallbacks |-> rafCallbacks,
   timeouts |-> timeouts, clock |-> clock, lastFrame |-> lastFrame,
   started |-> started, calls |-> calls, drops |-> drops, stopped |-> stopped,
   paths |-> paths, seeded |-> seeded, log |-> {}]

CommitState(w) ==
  /\ rafId' = w.rafId
  /\ isPlaying' = w.isPlaying
  /\ isFinished' = w.isFinished
  /\ destroyed' = w.destroyed
  /\ runIndex' = w.runIndex
  /\ replayTimer' = w.replayTimer
  /\ edgesState' = w.edgesState
  /\ regionalState' = w.regionalState
  /\ requests' = w.requests
  /\ invalidations' = w.invalidations
  /\ resizeTimer' = w.resizeTimer
  /\ rafCallbacks' = w.rafCallbacks
  /\ timeouts' = w.timeouts
  /\ clock' = w.clock
  /\ lastFrame' = w.lastFrame
  /\ started' = w.started
  /\ calls' = w.calls
  /\ drops' = w.drops
  /\ stopped' = w.stopped
  /\ paths' = w.paths
  /\ seeded' = w.seeded
  /\ log' = w.log

\* A step of the animator leaves the rest of the page as it is.
Commit(w) == CommitState(w) /\ UNCHANGED hostVars

\* History of an operation: the commit points it went through.
Ev(kind, tier, index, flag, next) ==
  [kind |-> kind, tier |-> tier, index |-> index, flag |-> flag, next |-> next]
Logged(w, e) == [w EXCEPT !.log = @ \cup {e}]

-----------------------------------------------------------------------------
(* Browser primitives.                                                     *)

\* window.requestAnimationFrame(renderFrame), the handle stored in state.rafId.
Range(q) == {q[k] : k \in DOMAIN q}

requestAnimationFrame(w) ==
  LET id == FreshHandle(Range(w.rafCallbacks) \cup {w.rafId})
  IN  [w EXCEPT !.rafCallbacks = Append(@, id), !.rafId = id]

cancelAnimationFrame(w, id) ==
  [w EXCEPT !.rafCallbacks = SelectSeq(@, LAMBDA h : h # id)]

TimerHandles(w) == {t.id : t \in w.timeouts} \cup {w.replayTimer, w.resizeTimer}

clearTimeout(w, id) == [w EXCEPT !.timeouts = {t \in @ : t.id # id}]

-----------------------------------------------------------------------------
(* Sizing and run set-up.                                                  *)

\* sizeCanvas rebuilding the node records without carrying the cached flags over.
sizeCanvas_forgetful(w) ==
  [w EXCEPT !.edgesState = [i \in Edges |-> FALSE],
            !.regionalState = [i \in Regionals |-> FALSE]]

\* sizeCanvas: the layout is recomputed and every node keeps its cached flag
\* (state.edgesState[i]?.cached || false).
sizeCanvas(w) ==
  [w EXCEPT
     !.edgesState = [i \in Edges |-> IF i \in DOMAIN w.edgesState THEN w.edgesState[i] ELSE FALSE],
     !.regionalState = [i \in Regionals |-> IF i \in DOMAIN w.regionalState THEN w.regionalState[i] ELSE FALSE]]

NewRequest(i, startAt) ==
  [userIndex |-> i, edgeIndex |-> assignedEdgeIndex(i),
   regionalIndex |-> edgesToRegional(assignedEdgeIndex(i)),
   startAt |-> startAt, state |-> "pending", t0 |-> 0]

setupRun(w) ==
  LET w1 == [clearTimeout(w, w.replayTimer) EXCEPT !.replayTimer = Null, !.isFinished = FALSE]
      now == w.clock
  IN  Logged([w1 EXCEPT
        !.requests = [k \in 1 .. usersCount |->
                        NewRequest(k - 1,
                          IF sequential THEN (IF k - 1 = 0 THEN now ELSE Infinity)
                                        ELSE now + (k - 1) * userStaggerMs)],
        !.runIndex = @ + 1,
        !.paths = [k \in 1 .. usersCount |-> <<>>],
        !.seeded = Min(2, @ + 1)], Ev("seed", "", 0, FALSE, ""))

-----------------------------------------------------------------------------
(* The per-frame state machines.                                           *)

\* The durations with an origin that takes longer than any run lasts.
getDurationForState_stalled(reqState) ==
  CASE reqState \in {"traveling_to_edge", "traveling_to_regional"} -> requestTravelMs
    [] reqState = "fetching_origin" -> fetchFromOriginMs * 1000
    [] reqState \in {"storing_regional", "storing_edge"} -> cacheStoreMs
    [] reqState \in {"regional_hit_return", "returning_to_edge_from_regional",
                     "returning_to_user", "edge_hit_return"} -> hitTravelMs
    [] OTHER -> defaultDurationMs

getDurationForState(reqState) ==
  CASE reqState \in {"traveling_to_edge", "traveling_to_regional"} -> requestTravelMs
    [] reqState = "fetching_origin" -> fetchFromOriginMs
    [] reqState \in {"storing_regional", "storing_edge"} -> cacheStoreMs
    [] reqState \in {"regional_hit_return", "returning_to_edge_from_regional",
                     "returning_to_user", "edge_hit_return"} -> hitTravelMs
    [] OTHER -> defaultDurationMs

\* t = Math.min(1, (now - t0) / duration), kept as the numerator over `duration`.
Progress(now, t0, duration) == Min(duration, now - t0)
\* A stage taken as complete at half its duration.
Complete_halfway(now, t0, duration) == 2 * (now - t0) >= duration

Complete(now, t0, duration) == Progress(now, t0, duration) >= duration

\* The edge decision with its branches swapped.
nextAfterEdge_swapped(cached) == IF cached THEN "traveling_to_regional" ELSE "edge_hit_return"

\* The regional decision with its branches swapped.
nextAfterRegional_swapped(cached) == IF cached THEN "fetching_origin" ELSE "regional_hit_return"

\* The regional decision going straight to the store on a miss.
nextAfterRegional_skipFetch(cached) == IF cached THEN "regional_hit_return" ELSE "storing_regional"

\* The hit / miss decisions of the two cache tiers.
nextAfterEdge(cached) == IF cached THEN "edge_hit_return" ELSE "traveling_to_regional"
nextAfterRegional(cached) == IF cached THEN "regional_hit_return" ELSE "fetching_origin"

\* The predecessor taken as out of the way as soon as it has started.
predecessorDone_started(reqs, i) == i > 1 /\ reqs[i - 1].state # "pending"

\* state.requests[state.requests.indexOf(req) - 1]?.state === 'done', for the
\* request at position i (positions count from 1 here).
predecessorDone(reqs, i) == i > 1 /\ reqs[i - 1].state = "done"

\* now >= req.startAt
startReached(now, startAt) == startAt # Infinity /\ now >= startAt

\* A request whose next stage starts where the last one was due to end.
stepRequest_carryExcess(w, now, i) ==
  LET req == w.requests[i]
      r1 == IF sequential /\ req.startAt = Infinity /\ predecessorDone(w.requests, i)
              THEN [req EXCEPT !.startAt = now] ELSE req
      r2 == IF r1.state = "pending" /\ startReached(now, r1.startAt)
              THEN [r1 EXCEPT !.state = "traveling_to_edge", !.t0 = now] ELSE r1
      done == Complete(now, r2.t0, getDurationForState(r2.state))
      to(s) == [r2 EXCEPT !.state = s, !.t0 = r2.t0 + getDurationForState(r2.state)]
      put(v, r) == [v EXCEPT !.requests[i] = r,
                             !.paths[i] = IF r.state # req.state THEN Append(@, r.state) ELSE @]
      e == req.edgeIndex
      g == req.regionalIndex
      \* history: t has been computed for the request, not below 0 or below
      seen(v) == Logged(v, Ev("progress", "", i, now - r2.t0 >= 0, ""))
  IN  IF req.state = "done" THEN [w |-> w, active |-> 0]
      ELSE IF r2.state = "pending" THEN [w |-> put(w, r2), active |-> 0]
      ELSE IF ~done THEN [w |-> seen(put(w, r2)), active |-> 1]
      ELSE [active |-> 1, w |-> seen(
        CASE r2.state = "traveling_to_edge" ->
               Logged(put(w, to(nextAfterEdge(w.edgesState[e]))),
                      Ev("decide", "edge", i, w.edgesState[e], nextAfterEdge(w.edgesState[e])))
          [] r2.state = "traveling_to_regional" ->
               Logged(put(w, to(nextAfterRegional(w.regionalState[g]))),
                      Ev("decide", "regional", i, w.regionalState[g], nextAfterRegional(w.regionalState[g])))
          [] r2.state = "fetching_origin" -> put(w, to("storing_regional"))
          [] r2.state = "storing_regional" ->
               Logged(put([w EXCEPT !.regionalState[g] = TRUE], to("returning_to_edge_from_regional")),
                      Ev("store", "regional", g, TRUE, ""))
          [] r2.state = "storing_edge" ->
               Logged(put([w EXCEPT !.edgesState[e] = TRUE], to("returning_to_user")),
                      Ev("store", "edge", e, TRUE, ""))
          [] r2.state \in {"regional_hit_return", "returning_to_edge_from_regional"} ->
               put(w, to("storing_edge"))
          [] r2.state \in {"edge_hit_return", "returning_to_user"} ->
               put(w, [r2 EXCEPT !.state = "done"])
          [] OTHER -> put(w, r2))]

\* The iteration with an edge hit going on to store at the edge again.
stepRequest_hitStores(w, now, i) ==
  LET req == w.requests[i]
      r1 == IF sequential /\ req.startAt = Infinity /\ predecessorDone(w.requests, i)
              THEN [req EXCEPT !.startAt = now] ELSE req
      r2 == IF r1.state = "pending" /\ startReached(now, r1.startAt)
              THEN [r1 EXCEPT !.state = "traveling_to_edge", !.t0 = now] ELSE r1
      done == Complete(now, r2.t0, getDurationForState(r2.state))
      to(s) == [r2 EXCEPT !.state = s, !.t0 = now]
      put(v, r) == [v EXCEPT !.requests[i] = r,
                             !.paths[i] = IF r.state # req.state THEN Append(@, r.state) ELSE @]
      e == req.edgeIndex
      g == req.regionalIndex
      \* history: t has been computed for the request, not below 0 or below
      seen(v) == Logged(v, Ev("progress", "", i, now - r2.t0 >= 0, ""))
  IN  IF req.state = "done" THEN [w |-> w, active |-> 0]
      ELSE IF r2.state = "pending" THEN [w |-> put(w, r2), active |-> 0]
      ELSE IF ~done THEN [w |-> seen(put(w, r2)), active |-> 1]
      ELSE [active |-> 1, w |-> seen(
        CASE r2.state = "traveling_to_edge" ->
               Logged(put(w, to(nextAfterEdge(w.edgesState[e]))),
                      Ev("decide", "edge", i, w.edgesState[e], nextAfterEdge(w.edgesState[e])))
          [] r2.state = "traveling_to_regional" ->
               Logged(put(w, to(nextAfterRegional(w.regionalState[g]))),
                      Ev("decide", "regional", i, w.regionalState[g], nextAfterRegional(w.regionalState[g])))
          [] r2.state = "fetching_origin" -> put(w, to("storing_regional"))
          [] r2.state = "storing_regional" ->
               Logged(put([w EXCEPT !.regionalState[g] = TRUE], to("returning_to_edge_from_regional")),
                      Ev("store", "regional", g, TRUE, ""))
          [] r2.state = "storing_edge" ->
               Logged(put([w EXCEPT !.edgesState[e] = TRUE], to("returning_to_user")),
                      Ev("store", "edge", e, TRUE, ""))
          [] r2.state \in {"regional_hit_return", "returning_to_edge_from_regional"} ->
               put(w, to("storing_edge"))
          [] r2.state = "edge_hit_return" -> put(w, to("storing_edge"))
          [] r2.state = "returning_to_user" -> put(w, [r2 EXCEPT !.state = "done"])
          [] OTHER -> put(w, r2))]

\* One iteration of the forEach of processRequests, on the request at
\* position i: the new world and whether the request counted as active.
stepRequest(w, now, i) ==
  LET req == w.requests[i]
      r1 == IF sequential /\ req.startAt = Infinity /\ predecessorDone(w.requests, i)
              THEN [req EXCEPT !.startAt = now] ELSE req
      r2 == IF r1.state = "pending" /\ startReached(now, r1.startAt)
              THEN [r1 EXCEPT !.state = "traveling_to_edge", !.t0 = now] ELSE r1
      done == Complete(now, r2.t0, getDurationForState(r2.state))
      to(s) == [r2 EXCEPT !.state = s, !.t0 = now]
      put(v, r) == [v EXCEPT !.requests[i] = r,
                             !.paths[i] = IF r.state # req.state THEN Append(@, r.state) ELSE @]
      e == req.edgeIndex
      g == req.regionalIndex
      \* history: t has been computed for the request, not below 0 or below
      seen(v) == Logged(v, Ev("progress", "", i, now - r2.t0 >= 0, ""))
  IN  IF req.state = "done" THEN [w |-> w, active |-> 0]
      ELSE IF r2.state = "pending" THEN [w |-> put(w, r2), active |-> 0]
      ELSE IF ~done THEN [w |-> seen(put(w, r2)), active |-> 1]
      ELSE [active |-> 1, w |-> seen(
        CASE r2.state = "traveling_to_edge" ->
               Logged(put(w, to(nextAfterEdge(w.edgesState[e]))),
                      Ev("decide", "edge", i, w.edgesState[e], nextAfterEdge(w.edgesState[e])))
          [] r2.state = "traveling_to_regional" ->
               Logged(put(w, to(nextAfterRegional(w.regionalState[g]))),
                      Ev("decide", "regional", i, w.regionalState[g], nextAfterRegional(w.regionalState[g])))
          [] r2.state = "fetching_origin" -> put(w, to("storing_regional"))
          [] r2.state = "storing_regional" ->
               Logged(put([w EXCEPT !.regionalState[g] = TRUE], to("returning_to_edge_from_regional")),
                      Ev("store", "regional", g, TRUE, ""))
          [] r2.state = "storing_edge" ->
               Logged(put([w EXCEPT !.edgesState[e] = TRUE], to("returning_to_user")),
                      Ev("store", "edge", e, TRUE, ""))
          [] r2.state \in {"regional_hit_return", "returning_to_edge_from_regional"} ->
               put(w, to("storing_edge"))
          [] r2.state \in {"edge_hit_return", "returning_to_user"} ->
               put(w, [r2 EXCEPT !.state = "done"])
          [] OTHER -> put(w, r2))]

RECURSIVE processRequestsFrom(_, _, _, _)
processRequestsFrom(w, now, i, active) ==
  IF i > Len(w.requests) THEN [w |-> w, active |-> active]
  ELSE LET r == stepRequest(w, now, i)
       IN  processRequestsFrom(r.w, now, i + 1, active + r.active)

processRequests(w, now) == processRequestsFrom(w, now, 1, 0)

\* One iteration of the forEach of processInvalidations.
stepInvalidation(w, now, i) ==
  LET inv == w.invalidations[i]
      done == Complete(now, inv.startTime, inv.duration)
      put(v, r) == [v EXCEPT !.invalidations[i] = r]
      nodes == IF inv.type = "edge" THEN w.edgesState ELSE w.regionalState
  IN  IF inv.state = "done" THEN [w |-> w, active |-> 0]
      ELSE [active |-> 1, w |->
        IF inv.targetIndex \notin DOMAIN nodes THEN put(w, [inv EXCEPT !.state = "done"])
        ELSE IF inv.state = "traveling" THEN
             IF done THEN put(w, [inv EXCEPT !.state = "pulsing", !.startTime = now,
                                             !.duration = cacheStoreMs])
                     ELSE w
        ELSE IF inv.state = "pulsing" /\ done THEN
             Logged(put(IF inv.type = "edge"
                          THEN [w EXCEPT !.edgesState[inv.targetIndex] = FALSE]
                          ELSE [w EXCEPT !.regionalState[inv.targetIndex] = FALSE],
                        [inv EXCEPT !.state = "done"]),
                    Ev("invalidated", inv.type, inv.targetIndex, FALSE, ""))
        ELSE w]

RECURSIVE processInvalidationsFrom(_, _, _, _)
processInvalidationsFrom(w, now, i, active) ==
  IF i > Len(w.invalidations) THEN [w |-> w, active |-> active]
  ELSE LET r == stepInvalidation(w, now, i)
       IN  processInvalidationsFrom(r.w, now, i + 1, active + r.active)

\* processInvalidations leaving the finished events in the list.
processInvalidations_keeping(w, now) ==
  LET r == processInvalidationsFrom(w, now, 1, 0)
  IN  [active |-> r.active, w |-> r.w]

processInvalidations(w, now) ==
  LET r == processInvalidationsFrom(w, now, 1, 0)
  IN  [active |-> r.active,
       w |-> [r.w EXCEPT !.invalidations = SelectSeq(@, LAMBDA inv : inv.state # "done")]]

-----------------------------------------------------------------------------
(* Loop control.                                                           *)

pauseLoop(w) ==
  IF w.rafId = Null THEN w
  ELSE [cancelAnimationFrame(w, w.rafId) EXCEPT !.isPlaying = FALSE, !.rafId = Null]

\* startLoop once state.isFinished is known to be false.
startLoopRunning(w) ==
  IF w.rafId # Null \/ w.destroyed THEN w
  ELSE requestAnimationFrame([w EXCEPT !.isPlaying = TRUE])

restart(w) ==
  LET w1 == [w EXCEPT !.runIndex = 0, !.isFinished = FALSE]
      w2 == [clearTimeout(w1, w1.replayTimer) EXCEPT !.replayTimer = Null]
  IN  startLoopRunning(setupRun(w2))

startLoop(w) ==
  IF w.rafId # Null \/ w.destroyed THEN w
  ELSE IF w.isFinished THEN restart(w)
  ELSE startLoopRunning(w)

cachesExist(w) ==
  (\E e \in DOMAIN w.edgesState : w.edgesState[e]) \/
  (\E r \in DOMAIN w.regionalState : w.regionalState[r])

\* setTimeout(() => { setupRun(); startLoop(); }, gapMs)
armReplay(w) ==
  LET id == FreshHandle(TimerHandles(w))
  IN  [w EXCEPT !.replayTimer = id,
                !.timeouts = @ \cup {[id |-> id, kind |-> "replay", due |-> w.clock + gapMs]}]

\* The replay test without its look at the run index.
replayDue_everyRun(w) ==
  w.replayTimer = Null /\ cachesExist(w) /\ Len(w.requests) > 0

\* state.runIndex === 1 && !state.replayTimer && cachesExist && state.requests.length > 0
replayDue(w) ==
  w.runIndex = 1 /\ w.replayTimer = Null /\ cachesExist(w) /\ Len(w.requests) > 0

\* renderFrame advancing the invalidations before the requests.
renderFrame_invalidationsFirst(w, now) ==
  LET w0 == Logged(w, Ev("frame", "", now, FALSE, ""))
      w1 == IF Len(w0.requests) = 0 /\ ~w0.isFinished /\ Len(w0.invalidations) = 0
              THEN setupRun(w0) ELSE w0
      pi == processInvalidations(w1, now)
      pr == processRequests(pi.w, now)
      w2 == pr.w
      totalActiveAnimations == pr.active + pi.active
  IN  IF totalActiveAnimations > 0 THEN requestAnimationFrame(w2)
      ELSE IF ~w2.isFinished THEN
        LET w3 == [w2 EXCEPT !.isFinished = TRUE]
            w4 == IF replayDue(w3) THEN armReplay(w3) ELSE w3
        IN  pauseLoop(w4)
      ELSE w2

renderFrame(w, now) ==
  LET w0 == Logged(w, Ev("frame", "", now, FALSE, ""))
      w1 == IF Len(w0.requests) = 0 /\ ~w0.isFinished /\ Len(w0.invalidations) = 0
              THEN setupRun(w0) ELSE w0
      pr == processRequests(w1, now)
      pi == processInvalidations(pr.w, now)
      w2 == pi.w
      totalActiveAnimations == pr.active + pi.active
  IN  IF totalActiveAnimations > 0 THEN requestAnimationFrame(w2)
      ELSE IF ~w2.isFinished THEN
        LET w3 == [w2 EXCEPT !.isFinished = TRUE]
            w4 == IF replayDue(w3) THEN armReplay(w3) ELSE w3
        IN  pauseLoop(w4)
      ELSE w2

-----------------------------------------------------------------------------
(* Public operations and event handlers.                                   *)

\* clearCache going on to seed a new batch, as the clear-cache button does.
clearCache_reseeding(w) ==
  LET w1 == [w EXCEPT !.edgesState = [e \in DOMAIN @ |-> FALSE],
                      !.regionalState = [r \in DOMAIN @ |-> FALSE]]
      w2 == [clearTimeout(w1, w1.replayTimer) EXCEPT !.replayTimer = Null, !.isFinished = TRUE]
  IN  restart(renderFrame(Logged(w2, Ev("clear", "", 0, FALSE, "")), w2.clock))

clearCache(w) ==
  LET w1 == [w EXCEPT !.edgesState = [e \in DOMAIN @ |-> FALSE],
                      !.regionalState = [r \in DOMAIN @ |-> FALSE]]
      w2 == [clearTimeout(w1, w1.replayTimer) EXCEPT !.replayTimer = Null, !.isFinished = TRUE]
  IN  renderFrame(Logged(w2, Ev("clear", "", 0, FALSE, "")), w2.clock)

onPlayPauseClick(w) == IF w.isPlaying THEN pauseLoop(w) ELSE startLoop(w)

onClearCacheClick(w) == restart(clearCache(w))

\* An event pushed already pulsing.
NewInvalidation_pulsing(type, index, now, duration) ==
  [type |-> type, targetIndex |-> index, startTime |-> now, duration |-> duration,
   state |-> "pulsing"]

NewInvalidation(type, index, now, duration) ==
  [type |-> type, targetIndex |-> index, startTime |-> now, duration |-> duration,
   state |-> "traveling"]

\* The events pushed for the cached nodes among first .. last, in index order.
RECURSIVE InvalidationsFor(_, _, _, _, _, _)
InvalidationsFor(cached, type, first, last, now, duration) ==
  IF first > last THEN <<>>
  ELSE (IF cached[first] THEN <<NewInvalidation(type, first, now, duration)>> ELSE <<>>)
       \o InvalidationsFor(cached, type, first + 1, last, now, duration)

invalidateAllCaches(w) ==
  LET now == w.clock
      w1 == [w EXCEPT !.invalidations =
               @ \o InvalidationsFor(w.regionalState, "regional", 0, regionalCount - 1,
                                     now, invalidationTravelTime)
                 \o InvalidationsFor(w.edgesState, "edge", 0, edgesCount - 1,
                                     now, invalidationTravelTime + invalidationEdgeExtraMs)]
  IN  IF ~w1.isPlaying THEN startLoop([w1 EXCEPT !.isFinished = FALSE]) ELSE w1

\* The guard looking only for a request that is under way.
hasOpenRequest_underWay(reqs, index) ==
  \E k \in DOMAIN reqs : reqs[k].userIndex = index /\ reqs[k].state \notin {"done", "pending"}

\* state.requests.some(req => req.userIndex === index && req.state !== 'done')
hasOpenRequest(reqs, index) ==
  \E k \in DOMAIN reqs : reqs[k].userIndex = index /\ reqs[k].state # "done"

\* onCanvasClick for a click inside the circle of user `index` (the circles
\* of two users never overlap, so at most one user is hit).
onCanvasClick(w, index) ==
  IF w.destroyed THEN w
  ELSE IF hasOpenRequest(w.requests, index) THEN w
  ELSE LET w1 == [w EXCEPT !.requests = Append(@, NewRequest(index, w.clock)),
                           !.paths = Append(@, <<>>)]
       IN  IF ~w1.isPlaying THEN startLoop([w1 EXCEPT !.isFinished = FALSE]) ELSE w1

onResize(w) ==
  LET w1 == clearTimeout(w, w.resizeTimer)
      id == FreshHandle(TimerHandles(w1))
  IN  [w1 EXCEPT !.resizeTimer = id,
                 !.timeouts = @ \cup {[id |-> id, kind |-> "resize",
                                       due |-> w.clock + resizeDebounceMs]}]

\* The callbacks of the two timeouts.
resizeCallback(w) ==
  LET w1 == sizeCanvas(w)
  IN  IF ~w1.isPlaying THEN renderFrame(w1, w1.clock) ELSE w1

replayCallback(w) == startLoop(setupRun(w))

start(w) == [startLoop(setupRun(sizeCanvas(w))) EXCEPT !.started = TRUE]

destroy(w) ==
  LET w1 == pauseLoop([w EXCEPT !.destroyed = TRUE])
  IN  clearTimeout(w1, w1.replayTimer)

\* The browser runs the frame callbacks that were pending when the frame
\* began, oldest first, each with the frame's timestamp; one cancelled
\* meanwhile does not run.
RECURSIVE runFrameCallbacks(_, _, _)
runFrameCallbacks(w, pending, now) ==
  IF pending = <<>> THEN w
  ELSE LET id == Head(pending)
       IN  IF id \in Range(w.rafCallbacks)
             THEN runFrameCallbacks(renderFrame(cancelAnimationFrame(w, id), now),
                                    Tail(pending), now)
             ELSE runFrameCallbacks(w, Tail(pending), now)

-----------------------------------------------------------------------------
(* init(scope): what it finds in the slide and what it leaves there.       *)

\* The pages init(scope) may be given: which elements exist, whether reduced
\* motion is preferred, whether the canvas yields a 2D context, and whether
\* the markup shows the fallback (display "") or hides it (display "none").
Pages ==
  [hasSlide : BOOLEAN, hasCanvas : BOOLEAN, hasFallback : BOOLEAN,
   hasPlayBtn : BOOLEAN, prefersReduced : BOOLEAN, hasContext : BOOLEAN,
   fallbackDisplay : {"", "none"}, canvasDisplay : {""},
   playBtnAriaHidden : {FALSE}, animation : {FALSE}, returned : {FALSE}]

\* createCloudfrontAnimation(canvas, slide) returns an animator, not null.
createCloudfrontAnimation(p) == p.hasContext

createsAnimation(p) ==
  /\ p.hasSlide
  /\ p.hasCanvas /\ ~p.prefersReduced
  /\ createCloudfrontAnimation(p)

init(p) ==
  LET r == [p EXCEPT !.returned = TRUE]
  IN  IF ~p.hasSlide THEN r
      ELSE IF ~p.hasCanvas \/ p.prefersReduced
      THEN [r EXCEPT !.canvasDisplay = IF p.hasCanvas THEN "none" ELSE @,
                     !.playBtnAriaHidden = IF p.hasPlayBtn THEN TRUE ELSE @,
                     !.fallbackDisplay = IF p.hasFallback THEN "block" ELSE @]
      ELSE LET r1 == [r EXCEPT !.fallbackDisplay =
                                  IF p.hasFallback THEN "none" ELSE @]
           IN  IF createCloudfrontAnimation(p)
               THEN [r1 EXCEPT !.animation = TRUE]
               ELSE r1

\* The page on which init(scope) has created an animator (line 81).
init_created ==
  [hasSlide |-> TRUE, hasCanvas |-> TRUE, hasFallback |-> TRUE,
   hasPlayBtn |-> TRUE, prefersReduced |-> FALSE, hasContext |-> TRUE,
   fallbackDisplay |-> "none", canvasDisplay |-> "",
   playBtnAriaHidden |-> FALSE, animation |-> TRUE, returned |-> FALSE]

-----------------------------------------------------------------------------
(* app.js: the slide deck, AWSSecurityPresentation.                        *)

totalSlides == 28
cloudFrontStart == 20
\* sections[id].slides[0], id in 1..7
sectionStart == <<1, 6, 11, 16, 24, 27, 28>>

\* The presentation after its constructor: slide 1 is current and active;
\* no fragment is being fetched and no activation is scheduled.
constructor ==
  [currentSlide |-> 1, active |-> 1, loads |-> <<>>, activations |-> <<>>,
   key |-> "", defaultPrevented |-> FALSE, navs |-> 0, overlapped |-> FALSE]

\* goToSlide(n) up to its await: the guard, then the fetch of the fragment.
goToSlide(d, n) ==
  IF n < 1 \/ n > totalSlides \/ n = d.currentSlide
  THEN d
  ELSE [d EXCEPT !.loads = Append(@, n), !.navs = @ + 1,
                 !.overlapped = @ \/ d.loads # <<>> \/ d.activations # <<>>]

\* goToSlide(n) after its await, taking the target for current before it
\* looks for the elements.
goToSlide_loaded_currentFirst(d, k, found) ==
  LET n == d.loads[k]
      rest == [j \in 1 .. Len(d.loads) - 1 |->
                 IF j < k THEN d.loads[j] ELSE d.loads[j + 1]]
      d1 == [d EXCEPT !.loads = rest, !.currentSlide = n]
  IN  IF ~found THEN d1
      ELSE [d1 EXCEPT !.active = IF @ = d.currentSlide THEN 0 ELSE @,
                      !.activations = Append(@, n)]

\* goToSlide(n) after its await, for the k-th fetch pending; found: the
\* current and the target slide elements are in the document.
goToSlide_loaded(d, k, found) ==
  LET n == d.loads[k]
      rest == [j \in 1 .. Len(d.loads) - 1 |->
                 IF j < k THEN d.loads[j] ELSE d.loads[j + 1]]
      d1 == [d EXCEPT !.loads = rest]
  IN  IF ~found THEN d1
      ELSE [d1 EXCEPT !.active = IF @ = d.currentSlide THEN 0 ELSE @,
                      !.currentSlide = n,
                      !.activations = Append(@, n)]

\* The timeout goToSlide sets: the target slide becomes the active one.
goToSlide_activate(d) ==
  [d EXCEPT !.active = Head(d.activations), !.activations = Tail(@)]

goToNextSlide(d) ==
  IF d.currentSlide < totalSlides THEN goToSlide(d, d.currentSlide + 1) ELSE d
goToPrevSlide(d) ==
  IF d.currentSlide > 1 THEN goToSlide(d, d.currentSlide - 1) ELSE d
goToSection(d, id) ==
  IF id \in DOMAIN sectionStart THEN goToSlide(d, sectionStart[id]) ELSE d
goToCloudFrontSection(d) == goToSlide(d, cloudFrontStart)

\* The keys the deck is given, each with the modifier held.
Keys == {"ArrowRight", "ArrowLeft", "Home", "End", "r", "c", "i", "m", "s", "b"}
Modifiers == {"", "ctrl", "alt"}

\* handleKeydown(event): its first statement is a return.
handleKeydown(d, key, mod) == d

\* The second keydown listener of init(): arrow keys do not scroll.
preventArrowScroll(d, key) ==
  [d EXCEPT !.defaultPrevented = key \in {"ArrowLeft", "ArrowRight"}]

\* The keydown listener of addKeyboardShortcuts(), the event's target not
\* being an input; fullscreen, printing and auto-advance leave the deck alone.
addKeyboardShortcuts(d, key, mod) ==
  LET hit == [d EXCEPT !.defaultPrevented = TRUE]
  IN  CASE key = "r" /\ mod = "ctrl" -> goToSlide(hit, 1)
        [] key = "i" /\ mod = "alt" -> goToSection(hit, 1)
        [] key = "m" /\ mod = "alt" -> goToSection(hit, 5)
        [] key = "s" /\ mod = "alt" -> goToSection(hit, 6)
        [] key = "b" /\ mod = "alt" -> goToSection(hit, 7)
        [] key = "c" /\ mod = "alt" -> goToCloudFrontSection(hit)
        [] OTHER -> d

\* A keydown event on the document: the three listeners in the order added.
keydown(d, key, mod) ==
  addKeyboardShortcuts(
    preventArrowScroll(handleKeydown([d EXCEPT !.key = key], key, mod), key),
    key, mod)

-----------------------------------------------------------------------------
(* scripts/images-to-pdf.js.                                               *)

\* File names "<num>.<ext>".
Names == [num : {2, 10}, ext : {"png", "JPG"}] \cup {[num |-> 2, ext |-> "txt"]}

\* The decimal digits of a number below 100, as the name spells them.
Digits(n) == IF n < 10 THEN <<n>> ELSE <<n \div 10, n % 10>>

\* Extensions without case, in alphabetical order.
LowerCase(ext) == IF ext = "JPG" THEN "jpg" ELSE ext
ExtRank(ext) == CASE LowerCase(ext) = "jpg" -> 1
                  [] LowerCase(ext) = "png" -> 2
                  [] OTHER -> 3

\* isImageFile(name): /\.(png|jpe?g)$/i
isImageFile(name) == LowerCase(name.ext) \in {"png", "jpg", "jpeg"}

\* Sequences of digits compared character by character.
LexLess(a, b) ==
  \E k \in 1 .. Len(b) :
     /\ \A j \in 1 .. k - 1 : j <= Len(a) /\ a[j] = b[j]
     /\ k > Len(a) \/ a[k] < b[k]

\* File names in the order of their characters: 10 before 2.
sortFilenames_lexical(a, b) ==
  \/ LexLess(Digits(a.num), Digits(b.num))
  \/ a.num = b.num /\ ExtRank(a.ext) < ExtRank(b.ext)

\* sortFilenames(a, b) < 0: localeCompare with numeric collation, case ignored.
sortFilenames(a, b) ==
  \/ a.num < b.num
  \/ a.num = b.num /\ ExtRank(a.ext) < ExtRank(b.ext)

\* Array.prototype.sort with that comparison; the sort is stable.
RECURSIVE Insert(_, _)
Insert(sorted, x) ==
  IF sorted = <<>> THEN <<x>>
  ELSE IF sortFilenames(x, Head(sorted)) THEN <<x>> \o sorted
  ELSE <<Head(sorted)>> \o Insert(Tail(sorted), x)
RECURSIVE sort(_)
sort(q) == IF q = <<>> THEN <<>> ELSE Insert(sort(SubSeq(q, 1, Len(q) - 1)), q[Len(q)])

\* What one run of the script finds: whether a directory argument is given,
\* which of the candidates (the argument, ./images, ./scripts/images) is a
\* directory, what readdir lists in the directory found, the file whose bytes
\* do not embed, and whether the output can be written.
NoName == [num |-> 0, ext |-> ""]
NoFile == <<[num |-> -1, ext |-> ""]>>
Listings == {q \in UNION {[1 .. n -> Names] : n \in 0 .. MaxEntries} :
               \A i, j \in DOMAIN q : i # j => q[i] # q[j]}
Runs ==
  [argDir : BOOLEAN, isDirectory : [1 .. 3 -> BOOLEAN], entries : Listings,
   corrupt : Names \cup {NoName}, writeFails : BOOLEAN,
   file : {NoFile}, writes : {0}, exitCode : {0}, ran : {FALSE}]
NotRun ==
  [argDir |-> FALSE, isDirectory |-> [c \in 1 .. 3 |-> FALSE], entries |-> <<>>,
   corrupt |-> NoName, writeFails |-> FALSE,
   file |-> NoFile, writes |-> 0, exitCode |-> 0, ran |-> FALSE]

\* candidates, after filter(Boolean): an argument not given is dropped.
candidates(r) == IF r.argDir THEN <<1, 2, 3>> ELSE <<2, 3>>

\* foundDir: the first candidate that is a directory, 0 for null.
foundDir(r) ==
  LET c == candidates(r)
      hits == {k \in DOMAIN c : r.isDirectory[c[k]]}
  IN  IF hits = {} THEN 0
      ELSE c[CHOOSE k \in hits : \A j \in hits : k <= j]

\* imagesToPdf(imagesDir, outPath): the pages written, or "throws".
imagesToPdf(r) ==
  LET imgs == sort(SelectSeq(r.entries, isImageFile))
  IN  IF foundDir(r) = 0 THEN "throws"
      ELSE IF Len(imgs) = 0 THEN "throws"
      ELSE IF \E k \in DOMAIN imgs : imgs[k] = r.corrupt THEN "throws"
      ELSE IF r.writeFails THEN "throws"
      ELSE "written"

\* The CLI entry: a thrown error is reported and sets the exit code.
main(r) ==
  LET done == [r EXCEPT !.ran = TRUE]
  IN  IF imagesToPdf(r) = "throws"
      THEN [done EXCEPT !.exitCode = 1]
      ELSE [done EXCEPT !.file = sort(SelectSeq(r.entries, isImageFile)),
                        !.writes = @ + 1]

-----------------------------------------------------------------------------
(* The state machine.                                                      *)

AnimatorInit ==
  /\ rafId = Null
  /\ isPlaying = TRUE
  /\ isFinished = FALSE
  /\ destroyed = FALSE
  /\ runIndex = 0
  /\ replayTimer = Null
  /\ edgesState = <<>>
  /\ regionalState = <<>>
  /\ requests = <<>>
  /\ invalidations = <<>>
  /\ resizeTimer = Null
  /\ rafCallbacks = <<>>
  /\ timeouts = {}
  /\ clock = 0
  /\ lastFrame = -Quantum
  /\ started = FALSE
  /\ calls = 0
  /\ drops = 0
  /\ stopped = 0
  /\ paths = <<>>
  /\ seeded = 0
  /\ log = {}

-----------------------------------------------------------------------------
(* The layout and the node lookups under a given userEdgeMap.              *)

\* The values a userEdgeMap entry is drawn from: below 0, the edges, beyond them.
MapValues == (0 - MaxBelow) .. (edgesCount - 1 + MaxAbove)
Maps == [1 .. usersCount -> MapValues]

\* array[index]: the element in a sequence of one, or none for undefined.
At(array, index) == IF index \in DOMAIN array THEN <<array[index]>> ELSE <<>>

\* state.layout as created, with the configuration's map, and no requests.
NoLayout(map) ==
  [map |-> map, users |-> <<>>, edges |-> <<>>, regionals |-> <<>>, origins |-> 1,
   edgesToRegional |-> <<>>, requests |-> <<>>, processed |-> FALSE, skipped |-> {}]

\* calculateLayoutPositions: users carries each user's assignedEdgeIndex,
\* edges and regionals the node labels.
calculateLayoutPositions(l) ==
  [l EXCEPT !.users = [i \in Users |-> assignedEdgeIndexOf(l.map, i)],
            !.edges = [i \in Edges |-> i],
            !.regionals = [i \in Regionals |-> i],
            !.edgesToRegional = [e \in Edges |-> edgesToRegional(e)]]

\* The requests setupRun builds: the edge the layout assigns and
\* layout.edgesToRegional[edgeIndex], undefined for an index off the array.
setupRequests(l) ==
  [l EXCEPT !.requests = [i \in Users |->
     [userIndex |-> i, edgeIndex |-> l.users[i],
      regionalIndex |-> At(l.edgesToRegional, l.users[i])]]]

\* The lookups at the head of processRequests' forEach: a request whose user,
\* edge or regional node is undefined is skipped.
lookupNodes(l) ==
  [l EXCEPT !.processed = TRUE,
            !.skipped = {i \in DOMAIN l.requests :
                \/ At(l.users, l.requests[i].userIndex) = <<>>
                \/ At(l.edges, l.requests[i].edgeIndex) = <<>>
                \/ l.requests[i].regionalIndex = <<>>
                \/ At(l.regionals, l.requests[i].regionalIndex[1]) = <<>>}]

LayoutStep(l) == layout' = l /\ UNCHANGED <<animatorVars, page, deck, pdf>>

LayOut ==
  /\ layout.users = <<>>
  /\ LET l == calculateLayoutPositions(layout) IN LayoutStep(l)
SetUpRequests ==
  /\ layout.users # <<>> /\ layout.requests = <<>>
  /\ LET l == setupRequests(layout) IN LayoutStep(l)
ProcessRequests ==
  /\ layout.requests # <<>> /\ ~layout.processed
  /\ LET l == lookupNodes(layout) IN LayoutStep(l)

InitLayout ==
  /\ AnimatorInit /\ page = init_created /\ deck = constructor /\ pdf = NotRun
  /\ \E map \in Maps : layout = NoLayout(map)
NextLayout == LayOut \/ SetUpRequests \/ ProcessRequests
SpecLayout == InitLayout /\ [][NextLayout]_vars

\* The animator has been created by init(scope) and is about to be started.
Init ==
  /\ AnimatorInit /\ page = init_created /\ deck = constructor /\ pdf = NotRun
  /\ layout = NoLayout(userEdgeMap)

-----------------------------------------------------------------------------
(* The component's entry point, init(scope).                               *)

\* init(scope) runs once on a page; an animator it creates is started.
RunInit ==
  /\ ~page.returned
  /\ page' = init(page)
  /\ IF createsAnimation(page) THEN CommitState(start(World))
                                ELSE UNCHANGED animatorVars
  /\ UNCHANGED <<deck, pdf, layout>>

\* The deck: its buttons, the keyboard, the fetches and the timeouts.
DeckWithin(d) == d.navs <= MaxNavs
DeckStep(d) == deck' = d /\ UNCHANGED <<animatorVars, page, pdf, layout>>

ClickNext ==
  LET d == goToNextSlide([deck EXCEPT !.key = ""])
  IN  DeckWithin(d) /\ DeckStep(d)
ClickPrev ==
  LET d == goToPrevSlide([deck EXCEPT !.key = ""])
  IN  DeckWithin(d) /\ DeckStep(d)
ClickSection ==
  \E id \in DOMAIN sectionStart :
     LET d == goToSection([deck EXCEPT !.key = ""], id)
     IN  DeckWithin(d) /\ DeckStep(d)
Keydown ==
  \E key \in Keys, mod \in Modifiers :
     LET d == keydown(deck, key, mod)
     IN  DeckWithin(d) /\ DeckStep(d)
FragmentLoaded ==
  \E k \in DOMAIN deck.loads, found \in BOOLEAN :
     DeckStep(goToSlide_loaded([deck EXCEPT !.key = ""], k, found))
ActivationTimerFires ==
  /\ deck.activations # <<>>
  /\ DeckStep(goToSlide_activate([deck EXCEPT !.key = ""]))

NextDeck ==
  \/ ClickNext
  \/ ClickPrev
  \/ ClickSection
  \/ Keydown
  \/ FragmentLoaded
  \/ ActivationTimerFires
SpecDeck == Init /\ [][NextDeck]_vars

\* The deck under its buttons alone.
NextNav ==
  \/ ClickNext
  \/ ClickPrev
  \/ ClickSection
  \/ FragmentLoaded
  \/ ActivationTimerFires
SpecNav == Init /\ [][NextNav]_vars

\* One run of the script.
RunScript ==
  /\ ~pdf.ran
  /\ pdf' = main(pdf)
  /\ UNCHANGED <<animatorVars, page, deck, layout>>

InitPdf ==
  /\ AnimatorInit /\ page = init_created /\ deck = constructor /\ pdf \in Runs
  /\ layout = NoLayout(userEdgeMap)
NextPdf == RunScript
SpecPdf == InitPdf /\ [][NextPdf]_vars

InitOnPage ==
  /\ AnimatorInit /\ page \in Pages /\ deck = constructor /\ pdf = NotRun
  /\ layout = NoLayout(userEdgeMap)
NextInit == RunInit
SpecInit == InitOnPage /\ [][NextInit]_vars

\* The lists stay within the bounds of the model.
WithinBounds(w) ==
  /\ Len(w.requests) <= MaxRequests
  /\ Len(w.invalidations) <= MaxInvalidations
  /\ Len(w.rafCallbacks) <= MaxRaf

Step(w) == WithinBounds(w) /\ Commit(w)

\* The host may call the public operations and the listeners may fire.
Live(maxCalls) == started /\ ~destroyed /\ calls < maxCalls

\* A host call or user event: the handler's effect, counted unless it changed nothing.
Call(w) == Step(IF w = World THEN w ELSE [w EXCEPT !.calls = @ + 1])

Start == ~started /\ Step(start(World))

\* A frame callback is pending and the horizon leaves room for a frame.
FrameReady(maxTicks) == rafCallbacks # <<>> /\ clock + Quantum <= Quantum * maxTicks

\* The world after the next frame.
AfterFrame ==
  LET w == [World EXCEPT !.clock = clock + Quantum, !.lastFrame = clock + Quantum,
                         !.stopped = 0]
  IN  runFrameCallbacks(w, w.rafCallbacks, w.lastFrame)

\* The browser delivers a frame, one Quantum after the last clock reading.
Frame(maxTicks) == FrameReady(maxTicks) /\ Step(AfterFrame)

\* The browser delivers a frame whose timestamp it took before the last
\* handler read the clock: the frame callbacks run now, with a timestamp
\* SkewMs behind the clock (and after the timestamp of the frame before).
LateFrame ==
  /\ rafCallbacks # <<>>
  /\ lastFrame < clock - SkewMs
  /\ LET w == [World EXCEPT !.lastFrame = clock - SkewMs, !.stopped = 0]
     IN  Step(runFrameCallbacks(w, w.rafCallbacks, w.lastFrame))

\* The browser skips a frame: time passes and the pending callbacks stay pending.
DropFrame(maxTicks, maxDrops) ==
  /\ FrameReady(maxTicks)
  /\ drops < maxDrops
  /\ Step([World EXCEPT !.clock = clock + Quantum, !.drops = @ + 1])

\* Time passes while no frame callback is pending, for as long as something
\* may still read the clock: a timeout's callback or a handler.
Idle(maxTicks) ==
  /\ started
  /\ rafCallbacks = <<>>
  /\ timeouts # {} \/ ~destroyed
  /\ clock + Quantum <= Quantum * maxTicks
  /\ Step([World EXCEPT !.clock = clock + Quantum, !.stopped = @ + Quantum])

ReplayTimerFires ==
  \E t \in timeouts :
    /\ t.kind = "replay" /\ t.due <= clock
    /\ Step(replayCallback([World EXCEPT !.timeouts = @ \ {t}]))

ResizeTimerFires ==
  \E t \in timeouts :
    /\ t.kind = "resize" /\ t.due <= clock
    /\ Step(resizeCallback([World EXCEPT !.timeouts = @ \ {t}]))

Play(maxCalls) == Live(maxCalls) /\ Call(startLoop(World))
Pause(maxCalls) == Live(maxCalls) /\ Call(pauseLoop(World))
Restart(maxCalls) == Live(maxCalls) /\ Call(restart(World))
ClearCache(maxCalls) == Live(maxCalls) /\ Call(clearCache(World))
Invalidate(maxCalls) == Live(maxCalls) /\ Call(invalidateAllCaches(World))
PlayPauseClick(maxCalls) == Live(maxCalls) /\ Call(onPlayPauseClick(World))
ClearCacheClick(maxCalls) == Live(maxCalls) /\ Call(onClearCacheClick(World))
Click(maxCalls) == Live(maxCalls) /\ \E u \in Users : Call(onCanvasClick(World, u))
Resize(maxCalls) == Live(maxCalls) /\ Call(onResize(World))
Destroy(maxCalls) == Live(maxCalls) /\ Call(destroy(World))

\* Every operation, within a horizon and budgets of calls and skipped frames.
NextWithin(maxTicks, maxCalls, maxDrops) ==
  \/ Start
  \/ Frame(maxTicks)
  \/ LateFrame
  \/ DropFrame(maxTicks, maxDrops)
  \/ Idle(maxTicks)
  \/ ReplayTimerFires
  \/ ResizeTimerFires
  \/ Play(maxCalls)
  \/ Pause(maxCalls)
  \/ Restart(maxCalls)
  \/ ClearCache(maxCalls)
  \/ Invalidate(maxCalls)
  \/ PlayPauseClick(maxCalls)
  \/ ClearCacheClick(maxCalls)
  \/ Click(maxCalls)
  \/ Resize(maxCalls)
  \/ Destroy(maxCalls)

Next == NextWithin(MaxTicks, MaxCalls, MaxDrops)
Spec == Init /\ [][Next]_vars

NextShort == NextWithin(MaxShortTicks, MaxShortCalls, MaxShortDrops)
SpecShort == Init /\ [][NextShort]_vars

NextWide == NextWithin(MaxWideTicks, MaxWideCalls, MaxWideDrops)
SpecWide == Init /\ [][NextWide]_vars

\* The host and the user leave the first requests of the first run alone.
NextLate ==
  \/ Start
  \/ Frame(MaxLateTicks)
  \/ LateFrame
  \/ DropFrame(MaxLateTicks, MaxLateDrops)
  \/ Idle(MaxLateTicks)
  \/ ReplayTimerFires
  \/ ResizeTimerFires
  \/ /\ clock >= Quantum * LateFrom
     /\ \/ Play(MaxLateCalls)
        \/ Pause(MaxLateCalls)
        \/ Restart(MaxLateCalls)
        \/ ClearCache(MaxLateCalls)
        \/ Invalidate(MaxLateCalls)
        \/ PlayPauseClick(MaxLateCalls)
        \/ ClearCacheClick(MaxLateCalls)
        \/ Click(MaxLateCalls)
        \/ Resize(MaxLateCalls)
        \/ Destroy(MaxLateCalls)
SpecLate == Init /\ [][NextLate]_vars

\* The run nobody interferes with: frames keep being delivered while a
\* callback is pending.
NextRun ==
  \/ Start
  \/ Frame(MaxRunTicks)
  \/ LateFrame
  \/ DropFrame(MaxRunTicks, MaxRunDrops)
  \/ Idle(MaxRunTicks)
  \/ ReplayTimerFires
\* The browser keeps delivering frames while a callback is pending: weak
\* fairness of Frame(MaxRunTicks), whose enabling condition is its guard
\* FrameReady here, where no list reaches a bound (FrameGuardEnables).
FrameFairness ==
  []<>(~FrameReady(MaxRunTicks)) \/ []<><<Frame(MaxRunTicks)>>_vars
SpecRun == Init /\ [][NextRun]_vars /\ WF_vars(Start) /\ FrameFairness

\* The run nobody pauses, restarts or destroys: once its first requests are
\* through, the user may click on users and the host may clear the caches.
NextClick ==
  \/ Start
  \/ Frame(MaxClickTicks)
  \/ LateFrame
  \/ DropFrame(MaxClickTicks, MaxClickDrops)
  \/ Idle(MaxClickTicks)
  \/ ReplayTimerFires
  \/ /\ clock >= Quantum * ClickFrom
     /\ \/ Click(MaxClickCalls)
        \/ ClearCache(MaxClickCalls)
ClickFrameFairness ==
  []<>(~FrameReady(MaxClickTicks)) \/ []<><<Frame(MaxClickTicks)>>_vars
SpecClick == Init /\ [][NextClick]_vars /\ WF_vars(Start) /\ ClickFrameFairness

\* The first run with invalidations: nothing but frames and invalidate().
NextInval ==
  \/ Start
  \/ Frame(MaxInvalTicks)
  \/ LateFrame
  \/ DropFrame(MaxInvalTicks, MaxInvalDrops)
  \/ Idle(MaxInvalTicks)
  \/ Invalidate(MaxInvalCalls)
SpecInval == Init /\ [][NextInval]_vars

\* The first run with the caches invalidated and cleared while its second
\* request is on its way.
NextOrder ==
  \/ Start
  \/ Frame(MaxOrderTicks)
  \/ LateFrame
  \/ DropFrame(MaxOrderTicks, MaxOrderDrops)
  \/ Idle(MaxOrderTicks)
  \/ /\ clock >= Quantum * OrderFrom
     /\ \/ Invalidate(MaxOrderCalls)
        \/ ClearCache(MaxOrderCalls)
SpecOrder == Init /\ [][NextOrder]_vars

FrameGuardEnables == FrameReady(MaxRunTicks) => WithinBounds(AfterFrame)

-----------------------------------------------------------------------------
(* Properties.                                                             *)

StoredIn(l, tier, n) == Ev("store", tier, n, TRUE, "") \in l
InvalidatedIn(l, tier, n) == Ev("invalidated", tier, n, FALSE, "") \in l
ClearedIn(l) == Ev("clear", "", 0, FALSE, "") \in l
FrameIn(l) == \E ev \in l : ev.kind = "frame"
SeedIn(l) == Ev("seed", "", 0, FALSE, "") \in l

Warmed(before, after, n) == n \in DOMAIN before /\ ~before[n] /\ after[n]
Cooled(before, after, n) == n \in DOMAIN before /\ before[n] /\ ~after[n]

AllCold == (\A e \in DOMAIN edgesState : ~edgesState[e]) /\
           (\A r \in DOMAIN regionalState : ~regionalState[r])
AllWarm == (\A e \in Edges : e \in DOMAIN edgesState /\ edgesState[e]) /\
           (\A r \in Regionals : r \in DOMAIN regionalState /\ regionalState[r])

\* C1, as claimed: in every step, a cached flag goes from false to true only
\* when a request completes storing into that node, and from true to false
\* only when an invalidation of that node completes its pulse.
C1_OnlyStoreAndInvalidation ==
  [][/\ \A e \in Edges :
          /\ Warmed(edgesState, edgesState', e) => StoredIn(log', "edge", e)
          /\ Cooled(edgesState, edgesState', e) => InvalidatedIn(log', "edge", e)
     /\ \A r \in Regionals :
          /\ Warmed(regionalState, regionalState', r) => StoredIn(log', "regional", r)
          /\ Cooled(regionalState, regionalState', r) => InvalidatedIn(log', "regional", r)]_vars

\* C1, amended: a cached flag goes from false to true only when a request
\* completes storing into that node, and from true to false only when an
\* invalidation of that node completes its pulse or clearCache runs.
C1_StoreInvalidationOrClear ==
  [][/\ \A e \in Edges :
          /\ Warmed(edgesState, edgesState', e) => StoredIn(log', "edge", e)
          /\ Cooled(edgesState, edgesState', e) =>
               InvalidatedIn(log', "edge", e) \/ ClearedIn(log')
     /\ \A r \in Regionals :
          /\ Warmed(regionalState, regionalState', r) => StoredIn(log', "regional", r)
          /\ Cooled(regionalState, regionalState', r) =>
               InvalidatedIn(log', "regional", r) \/ ClearedIn(log')]_vars

\* A request has stored into its regional node and clearCache has just
\* cleared that flag again.
C1_Witness ==
  /\ ClearedIn(log) /\ ~SeedIn(log)
  /\ \E i \in DOMAIN requests :
       /\ requests[i].state \in {"returning_to_edge_from_regional", "storing_edge"}
       /\ ~regionalState[requests[i].regionalIndex]

\* C2, as claimed: when clearCache (alone or in the clear-cache click
\* handler) has just run, every edge and regional flag is false.
C2_AllColdAfterClear == ClearedIn(log) => AllCold

PathPrefix(p, q) == Len(p) <= Len(q) /\ \A k \in 1 .. Len(p) : p[k] = q[k]

FullMissPath ==
  <<"traveling_to_edge", "traveling_to_regional", "fetching_origin", "storing_regional",
    "returning_to_edge_from_regional", "storing_edge", "returning_to_user", "done">>
RegionalHitPath ==
  <<"traveling_to_edge", "traveling_to_regional", "regional_hit_return", "storing_edge",
    "returning_to_user", "done">>
EdgeHitPath == <<"traveling_to_edge", "edge_hit_return", "done">>

FirstRun == seeded = 1
AllDone == Len(requests) = usersCount /\ \A i \in DOMAIN requests : requests[i].state = "done"

\* C3, as claimed: every request of the first run follows the full miss path.
C3_AllFullMiss ==
  FirstRun => \A i \in DOMAIN requests : PathPrefix(paths[i], FullMissPath)

\* C3, amended: in the first run, left alone, the requests of users 1 and 3
\* follow the full miss path, the request of user 2 misses at its edge and
\* hits at the regional cache user 1 warmed, and the request of user 4 hits
\* at the edge user 3 warmed; a finished request has gone its whole path.
C3_FirstRunPaths ==
  FirstRun =>
    /\ Len(requests) = usersCount
    /\ PathPrefix(paths[1], FullMissPath)
    /\ PathPrefix(paths[2], RegionalHitPath)
    /\ PathPrefix(paths[3], FullMissPath)
    /\ PathPrefix(paths[4], EdgeHitPath)
    /\ \A i \in DOMAIN requests :
         /\ requests[i].state = "pending" <=> paths[i] = <<>>
         /\ requests[i].state # "pending" => paths[i][Len(paths[i])] = requests[i].state

\* The first run is over.
C3_Witness ==
  /\ FirstRun /\ AllDone
  /\ paths = <<FullMissPath, RegionalHitPath, FullMissPath, EdgeHitPath>>

C4_Witness == FirstRun /\ AllDone /\ AllWarm /\ isFinished

ExpectedNext(tier, cached) ==
  IF tier = "edge"
    THEN (IF cached THEN "edge_hit_return" ELSE "traveling_to_regional")
    ELSE (IF cached THEN "regional_hit_return" ELSE "fetching_origin")

Decisions(l) == {ev \in l : ev.kind = "decide"}

\* C5: whenever a request completes traveling_to_edge or traveling_to_regional,
\* its next state is the hit return if the node's flag at that moment is true
\* and the miss continuation otherwise, and the request is in that state,
\* entered at the frame's clock, when the operation returns (unless the
\* operation went on to seed a new run).
C5_DecisionFollowsFlag ==
  \A ev \in Decisions(log) :
    /\ ev.next = ExpectedNext(ev.tier, ev.flag)
    /\ ~SeedIn(log) =>
         /\ requests[ev.index].state = ev.next
         /\ \E f \in log : f.kind = "frame" /\ f.index = requests[ev.index].t0
         /\ paths[ev.index][Len(paths[ev.index]) - 1] =
              (IF ev.tier = "edge" THEN "traveling_to_edge" ELSE "traveling_to_regional")

\* A request created while its regional node was cold finds it warm when it
\* gets there, and takes the hit return.
C5_Witness ==
  /\ FirstRun
  /\ \E ev \in Decisions(log) : ev.tier = "regional" /\ ev.flag /\ ev.index = 2
  /\ requests[2].state = "regional_hit_return"

\* C6: in a batch seeded by setupRun, request i+1 is pending until request i
\* is done.
C6_SequentialOrder ==
  sequential =>
    \A i \in 1 .. usersCount - 1 :
      (i + 1 \in DOMAIN requests /\ requests[i + 1].state # "pending")
        => requests[i].state = "done"

\* The second request of a batch has left pending.
C6_Witness ==
  /\ Len(requests) >= usersCount
  /\ requests[1].state = "done"
  /\ requests[2].state \notin {"pending", "done"}
  /\ requests[3].state = "pending"

OpenRequests(reqs, u) == {k \in DOMAIN reqs : reqs[k].userIndex = u /\ reqs[k].state # "done"}

\* C7: every user has at most one request that is not done, and a step that
\* appends a request appends it for a user who had none.
C7_OneOpenRequestPerUser ==
  /\ [](\A u \in Users : Cardinality(OpenRequests(requests, u)) <= 1)
  /\ [][Len(requests') = Len(requests) + 1 =>
          OpenRequests(requests, requests'[Len(requests')].userIndex) = {}]_vars

\* A click has been accepted: its request is in the list behind the batch.
C7_Witness ==
  /\ Len(requests) = usersCount + 1
  /\ requests[usersCount + 1].state # "done"
  /\ \A i \in 1 .. usersCount : requests[i].userIndex = requests[usersCount + 1].userIndex
                                  => requests[i].state = "done"

ReplayPending(ts) == \E t \in ts : t.kind = "replay"
ResizePending(ts) == \E t \in ts : t.kind = "resize"

\* C8, as claimed: once destroy has run, no frame callback and no timeout is
\* pending and no frame is processed.
C8_NothingLeftAfterDestroy ==
  destroyed => rafCallbacks = <<>> /\ timeouts = {} /\ ~FrameIn(log)

\* The step is what a call of the handler with result w does (the call
\* counted or not).
IsCallOf(w) == started /\ ~destroyed /\ (Commit(w) \/ Commit([w EXCEPT !.calls = @ + 1]))

RequestsKept ==
  \A i \in DOMAIN requests :
    requests[i].state # "done" =>
      /\ i \in DOMAIN requests'
      /\ requests'[i].userIndex = requests[i].userIndex
      /\ requests'[i].state = requests[i].state
      /\ requests'[i].t0 = requests[i].t0

InvalidationsKept ==
  \A i \in DOMAIN invalidations :
    invalidations[i].state # "done" =>
      /\ i \in DOMAIN invalidations'
      /\ invalidations'[i] = invalidations[i]

\* C9, as claimed: a pause() or play() step keeps every request and
\* invalidation that is not done, with its state and entry timestamp.
C9_PausePlayKeepInFlight ==
  [][IsCallOf(pauseLoop(World)) \/ IsCallOf(startLoop(World))
       => RequestsKept /\ InvalidationsKept]_vars

\* C10, as claimed: after a pause() step no frame callback and no replay
\* timeout is pending.
C10_PauseCancelsContinuation ==
  [][IsCallOf(pauseLoop(World)) => rafCallbacks' = <<>> /\ ~ReplayPending(timeouts')]_vars

\* The loop was stopped for a while and this step delivers the next frame.
FrameAfterStop == stopped > 0 /\ lastFrame' # lastFrame

\* C11, as claimed: at the first frame delivered after the loop was stopped
\* by pause() and resumed, a request or invalidation that was in flight at the
\* last frame before the stop has the progress it would have had, had the
\* time spent stopped not gone by.
C11_ProgressKeptOverPause ==
  [][FrameAfterStop =>
       /\ \A i \in DOMAIN requests :
            (requests[i].state \notin {"pending", "done"} /\ requests[i].t0 <= lastFrame) =>
              Progress(lastFrame', requests[i].t0, getDurationForState(requests[i].state))
                = Progress(lastFrame' - stopped, requests[i].t0,
                           getDurationForState(requests[i].state))
       /\ \A i \in DOMAIN invalidations :
            (invalidations[i].state # "done" /\ invalidations[i].startTime <= lastFrame) =>
              Progress(lastFrame', invalidations[i].startTime, invalidations[i].duration)
                = Progress(lastFrame' - stopped, invalidations[i].startTime,
                           invalidations[i].duration)]_vars

\* What invalidate() with nothing cached is said to leave alone.
AnimatorUnchanged ==
  UNCHANGED <<requests, invalidations, edgesState, regionalState, isPlaying, isFinished,
              runIndex, rafId, replayTimer, rafCallbacks, timeouts>>

\* C12, as claimed: an invalidate() step taken while no node is cached
\* enqueues no invalidation and changes nothing of the animator.
C12_InvalidateColdChangesNothing ==
  [][AllCold /\ IsCallOf(invalidateAllCaches(World)) =>
       Len(invalidations') = Len(invalidations) /\ AnimatorUnchanged]_vars

\* The events a step appended to the invalidation list.
Appended == SubSeq(invalidations', Len(invalidations) + 1, Len(invalidations'))
EventsFor(new, type, n) == {k \in DOMAIN new : new[k].type = type /\ new[k].targetIndex = n}
CachedNodes == Cardinality({e \in DOMAIN edgesState : edgesState[e]})
                 + Cardinality({r \in DOMAIN regionalState : regionalState[r]})

\* C13: an invalidate() step keeps the events already listed and appends
\* exactly one event for each node that is cached when it is called and none
\* for a node that is not, each starting in state traveling at the time of
\* the call.
C13_OneEventPerCachedNode ==
  [][IsCallOf(invalidateAllCaches(World)) =>
       /\ Len(invalidations') = Len(invalidations) + CachedNodes
       /\ \A i \in DOMAIN invalidations : invalidations'[i] = invalidations[i]
       /\ \A k \in DOMAIN Appended :
            Appended[k].state = "traveling" /\ Appended[k].startTime = clock
       /\ \A e \in Edges :
            Cardinality(EventsFor(Appended, "edge", e)) = (IF edgesState[e] THEN 1 ELSE 0)
       /\ \A r \in Regionals :
            Cardinality(EventsFor(Appended, "regional", r))
              = (IF regionalState[r] THEN 1 ELSE 0)]_vars

\* invalidate() has just been called with one edge and one regional node
\* cached and the others not: two events, one for each.
C13_Witness ==
  /\ CachedNodes = 2
  /\ Len(invalidations) = 2
  /\ \E e \in Edges, r \in Regionals :
       /\ edgesState[e] /\ regionalState[r]
       /\ invalidations[1] = NewInvalidation("regional", r, clock, invalidationTravelTime)
       /\ invalidations[2] = NewInvalidation("edge", e, clock,
                                             invalidationTravelTime + invalidationEdgeExtraMs)

\* C14, as claimed: the progress t a frame computes for a request is never
\* below 0 (it is never above 1, Progress taking the lesser of the elapsed
\* time and the duration).
C14_ProgressWithinUnit ==
  \A ev \in log : ev.kind = "progress" => ev.flag

\* One pending request for each user, aimed at the user's assigned edge.
FreshBatch(reqs) ==
  /\ Len(reqs) = usersCount
  /\ \A k \in 1 .. usersCount :
       /\ reqs[k].userIndex = k - 1
       /\ reqs[k].edgeIndex = assignedEdgeIndex(k - 1)
       /\ reqs[k].state = "pending"

\* C15, as claimed: after a restart() step the run counter is 1, the request
\* list is one pending request for each user, every cached flag is what it
\* was, no replay timeout is pending and a frame callback is pending.
C15_RestartReseedsAndResumes ==
  [][IsCallOf(restart(World)) =>
       /\ runIndex' = 1
       /\ FreshBatch(requests')
       /\ edgesState' = edgesState /\ regionalState' = regionalState
       /\ ~ReplayPending(timeouts')
       /\ rafCallbacks' # <<>>]_vars

\* The step is a frame that found nothing active and stopped the loop.
LoopFinishes == ~isFinished /\ isFinished' /\ FrameIn(log') /\ ~SeedIn(log')

ReplaysPending(ts) == {t \in ts : t.kind = "replay"}

\* C16: when the loop finishes while the run index is greater than 1 no
\* replay timeout is pending afterwards, and never is more than one replay
\* timeout pending.
C16_NoReplayAfterFirstRun ==
  /\ [][LoopFinishes /\ runIndex' > 1 => ~ReplayPending(timeouts')]_vars
  /\ [](Cardinality(ReplaysPending(timeouts)) <= 1)

\* The replay of the first run has run to its end and the loop has stopped.
C16_Witness ==
  /\ runIndex = 2 /\ isFinished /\ AllDone
  /\ rafCallbacks = <<>> /\ timeouts = {}

\* Some request of the batch has completed a store since the run was seeded;
\* without one no flag can have gone from false to true in the run.
StoredInRun(ps) ==
  \E i \in DOMAIN ps : \E k \in DOMAIN ps[i] :
    ps[i][k] \in {"returning_to_edge_from_regional", "returning_to_user"}

\* C17, as claimed: when the loop finishes run 1 and arms the replay timeout,
\* some cache entry has become warm during that run.
C17_ReplayOnlyAfterWarming ==
  [][LoopFinishes /\ runIndex' = 1 /\ ReplayPending(timeouts') /\ ~ReplayPending(timeouts)
       => StoredInRun(paths')]_vars

\* C18, as claimed: with no frame callback pending, a click on a user who has
\* no request that is not done, and an invalidate() with some node cached,
\* each leave a frame callback pending.
C18_ClickAndInvalidateResume ==
  [][/\ rafCallbacks = <<>>
     /\ \/ \E u \in Users : ~hasOpenRequest(requests, u) /\ IsCallOf(onCanvasClick(World, u))
        \/ ~AllCold /\ IsCallOf(invalidateAllCaches(World))
     => rafCallbacks' # <<>>]_vars

\* The first request of the replayed batch, the last batch of the undisturbed
\* run, is in the list and done; the frames of three more requests follow.
FirstOfReplayDone == seeded = 2 /\ Len(requests) >= 1 /\ requests[1].state = "done"

\* C19, as claimed: a request that is done is eventually removed from the
\* request list, with no new run seeded.
C19_DoneEventuallyRemoved == FirstOfReplayDone ~> ~FirstOfReplayDone

\* The node a decision looked at.
DecidedNode(reqs, ev) ==
  IF ev.tier = "edge" THEN reqs[ev.index].edgeIndex ELSE reqs[ev.index].regionalIndex

\* C20: a clearCache() step keeps every request in the list, for the same
\* user and edge, and returns none that had started to pending; a request
\* that comes to a decision in the frame clearCache() renders decides from
\* the flag as it is then: a miss, unless a store of that frame has set the
\* flag again.
C20_ClearCacheKeepsRequests ==
  [][IsCallOf(clearCache(World)) =>
       /\ Len(requests') = Len(requests)
       /\ \A i \in DOMAIN requests :
            /\ requests'[i].userIndex = requests[i].userIndex
            /\ requests'[i].edgeIndex = requests[i].edgeIndex
            /\ requests[i].state # "pending" => requests'[i].state # "pending"
            /\ requests[i].state = "done" => requests'[i] = requests[i]
       /\ \A ev \in Decisions(log') :
            /\ ev.next = ExpectedNext(ev.tier, ev.flag)
            /\ ev.flag => StoredIn(log', ev.tier, DecidedNode(requests, ev))]_vars

\* clearCache() has run while the second request of the batch was on its way
\* to a node the first had warmed: the request is still on its way and every
\* flag is false.
C20_Witness ==
  /\ ClearedIn(log) /\ ~SeedIn(log)
  /\ Len(requests) = usersCount
  /\ requests[1].state = "done"
  /\ requests[2].state \in {"traveling_to_edge", "traveling_to_regional"}
  /\ requests[2].t0 < clock
  /\ AllCold

-----------------------------------------------------------------------------
(* init(scope) and the fallback.                                           *)

\* C21: on a slide with a fallback element, when init() has returned without
\* creating and starting an animator, the fallback is visible: init() never
\* ends with no animator and the fallback hidden.
C21_FallbackShownWithoutAnimator ==
  (page.returned /\ page.hasSlide /\ page.hasFallback /\ ~page.animation)
     => page.fallbackDisplay # "none"

-----------------------------------------------------------------------------
(* The deck's keyboard.                                                    *)

\* The deck has begun to move to slide n, or is there already.
MovesTo(n) == n = deck.currentSlide \/ deck'.loads = Append(deck.loads, n)

\* A keydown event of the bare key has just been handled.
Pressed(key) == deck' = keydown(deck, key, "") /\ deck' # deck

\* C22: ArrowRight moves the deck to the next slide and ArrowLeft to the
\* previous one, when there is one; Home moves to the first slide and End to
\* the last.
C22_KeysNavigate ==
  [][/\ Pressed("ArrowRight") /\ deck.currentSlide < totalSlides
          => MovesTo(deck.currentSlide + 1)
     /\ Pressed("ArrowLeft") /\ deck.currentSlide > 1
          => MovesTo(deck.currentSlide - 1)
     /\ Pressed("Home") => MovesTo(1)
     /\ Pressed("End") => MovesTo(totalSlides)]_vars

-----------------------------------------------------------------------------
(* The image-to-PDF script.                                                *)

ImageEntries == {pdf.entries[k] : k \in {j \in DOMAIN pdf.entries : isImageFile(pdf.entries[j])}}
NothingWritten == pdf.file = NoFile /\ pdf.writes = 0 /\ pdf.exitCode # 0
NoDirectoryFound == \A c \in Range(candidates(pdf)) : ~pdf.isDirectory[c]
GivenDirectoryMissing == pdf.argDir /\ ~pdf.isDirectory[1]
NoImages == ImageEntries = {}
EmbedFails == pdf.corrupt \in ImageEntries

\* The file holds one page per image file, in numeric-aware order of names.
PagesInOrder ==
  /\ pdf.file # NoFile /\ pdf.writes = 1
  /\ Len(pdf.file) = Cardinality(ImageEntries)
  /\ Range(pdf.file) = ImageEntries
  /\ \A i, j \in DOMAIN pdf.file :
        i < j => \/ pdf.file[i].num < pdf.file[j].num
                 \/ /\ pdf.file[i].num = pdf.file[j].num
                    /\ ExtRank(pdf.file[i].ext) <= ExtRank(pdf.file[j].ext)

\* C23 as stated: a run whose images directory (the one given) is missing,
\* or holds no image, or holds an image that fails to embed, writes nothing
\* and sets a non-zero exit code; a successful run writes one file with one
\* page per image in numeric-aware order.
C23_AllOrNothing_GivenDirectory ==
  pdf.ran =>
    /\ (GivenDirectoryMissing \/ NoImages \/ EmbedFails) => NothingWritten
    /\ pdf.exitCode = 0 => PagesInOrder

\* C23, amended: the run fails for a missing directory only when none of the
\* candidates (the directory given, ./images, ./scripts/images) is a
\* directory; a run that may use a directory, finds images there, embeds
\* them all and can write, succeeds with one page per image in
\* numeric-aware order.
C23_AllOrNothing ==
  pdf.ran =>
    /\ (NoDirectoryFound \/ NoImages \/ EmbedFails) => NothingWritten
    /\ pdf.exitCode = 0 => PagesInOrder
    /\ ~(NoDirectoryFound \/ NoImages \/ EmbedFails \/ pdf.writeFails)
          => pdf.exitCode = 0

C23_Witness ==
  /\ pdf.ran /\ pdf.exitCode = 0
  /\ pdf.file = <<[num |-> 2, ext |-> "png"], [num |-> 10, ext |-> "JPG"],
                  [num |-> 10, ext |-> "png"]>>
  /\ pdf.entries[1].num = 10

-----------------------------------------------------------------------------
(* The render loop.                                                        *)

\* C24: at most one frame callback of the animator is pending, and a pending
\* callback is the one whose handle state.rafId holds.
C24_OneFrameCallback ==
  /\ Len(rafCallbacks) <= 1
  /\ rafCallbacks # <<>> => rafCallbacks = <<rafId>>

\* A frame found nothing active and stopped the loop (renderFrame's else branch).
LoopStopsItself == ~isFinished /\ isFinished' /\ FrameIn(log') /\ ~ClearedIn(log')

\* C25: when the render loop stops itself because a frame found nothing
\* active, every request in the list is done: none is left pending or in
\* flight.
C25_StopsOnlyWhenAllDone ==
  [][LoopStopsItself => \A i \in DOMAIN requests' : requests'[i].state = "done"]_vars

\* The same for a request a click has enqueued behind finished ones.
ClickRequestNotStranded ==
  [][LoopStopsItself /\ Len(requests') > usersCount
       => requests'[Len(requests')].state = "done"]_vars

\* The animator has been paused in the middle of a run: it is not playing,
\* the run is not finished and no frame callback is pending.
Paused == started /\ ~destroyed /\ ~isPlaying /\ ~isFinished /\ rafCallbacks = <<>>

\* The step is one of the operations that end a pause.
EndsPause ==
  \/ IsCallOf(startLoop(World))
  \/ IsCallOf(restart(World))
  \/ IsCallOf(invalidateAllCaches(World))
  \/ IsCallOf(onPlayPauseClick(World))
  \/ IsCallOf(onClearCacheClick(World))
  \/ IsCallOf(destroy(World))
  \/ \E u \in Users : IsCallOf(onCanvasClick(World, u))

\* C26: while the animator is paused, until play(), restart(), a click or
\* invalidate(), no request and no invalidation changes state, no request
\* sets a cached flag and no frame callback becomes pending; a resize or a
\* clearCache() during the pause does not advance the requests or restart
\* the loop.
C26_PauseFreezesAnimation ==
  [][Paused /\ ~EndsPause =>
       /\ DOMAIN requests' = DOMAIN requests
       /\ \A i \in DOMAIN requests : requests'[i].state = requests[i].state
       /\ DOMAIN invalidations' = DOMAIN invalidations
       /\ \A i \in DOMAIN invalidations : invalidations'[i].state = invalidations[i].state
       /\ ~\E ev \in log' : ev.kind = "store"
       /\ rafCallbacks' = <<>>]_vars

-----------------------------------------------------------------------------
(* Requests enqueued by clicks.                                            *)

\* A request enqueued by a click (behind the batch of usersCount) is not done.
ClickRequestOpen ==
  \E i \in DOMAIN requests : i > usersCount /\ requests[i].state # "done"
ClickRequestDone ==
  \E i \in DOMAIN requests : i > usersCount /\ requests[i].state = "done"
\* A frame callback is pending at the end of the horizon.
CutShort(maxTicks) == rafCallbacks # <<>> /\ ~FrameReady(maxTicks)

\* C27: a request enqueued by a click eventually reaches done, the animator
\* being neither paused, restarted nor destroyed and frames being delivered
\* while a callback is pending.
C27_ClickRequestCompletes ==
  ClickRequestOpen ~> (ClickRequestDone \/ CutShort(MaxClickTicks))

-----------------------------------------------------------------------------
(* The request state machine.                                              *)

\* The state changes of a request the specification lists.
AllowedChange ==
  {<<"pending", "traveling_to_edge">>,
   <<"traveling_to_edge", "traveling_to_regional">>,
   <<"traveling_to_edge", "edge_hit_return">>,
   <<"traveling_to_regional", "fetching_origin">>,
   <<"traveling_to_regional", "regional_hit_return">>,
   <<"fetching_origin", "storing_regional">>,
   <<"storing_regional", "returning_to_edge_from_regional">>,
   <<"returning_to_edge_from_regional", "storing_edge">>,
   <<"regional_hit_return", "storing_edge">>,
   <<"storing_edge", "returning_to_user">>,
   <<"returning_to_user", "done">>,
   <<"edge_hit_return", "done">>}

\* The states request i has been in, from pending on.
History(i) == <<"pending">> \o paths[i]
ChangesOf(i) == {<<History(i)[k], History(i)[k + 1]>> : k \in 1 .. Len(paths[i])}

\* C28: every state change of a request is one of the listed ones; done is
\* absorbing and no request moves back to an earlier state (no state occurs
\* twice in a request's history).
C28_RequestStateMachine ==
  \A i \in DOMAIN requests :
    /\ History(i)[Len(History(i))] = requests[i].state
    /\ ChangesOf(i) \subseteq AllowedChange
    /\ \A k \in DOMAIN History(i) : History(i)[k] = "done" => k = Len(History(i))
    /\ \A j, k \in DOMAIN History(i) : j # k => History(i)[j] # History(i)[k]

\* Every listed change has been made by a request of the present batch.
C28_Witness == AllowedChange = UNION {ChangesOf(i) : i \in DOMAIN requests}

\* Request i is in state s; request i enters state s in this step.
InState(i, s) == i \in DOMAIN requests /\ requests[i].state = s
Enters(i, s) ==
  /\ i \in DOMAIN paths /\ i \in DOMAIN paths'
  /\ paths'[i] = Append(paths[i], s)
Missed(i) == "fetching_origin" \in Range(paths[i])

\* C29: a request that enters fetching_origin eventually reaches done, in a
\* run that is not restarted or destroyed and whose frames are delivered; on
\* the way it sets its regional node's cached flag in one frame, its edge
\* node's cached flag in a later one, and is done after both.
C29_MissCompletes ==
  /\ \A i \in 1 .. usersCount : InState(i, "fetching_origin") ~> InState(i, "done")
  /\ [][\A i \in DOMAIN requests :
          /\ Enters(i, "returning_to_edge_from_regional") /\ Missed(i)
               => /\ StoredIn(log', "regional", requests[i].regionalIndex)
                  /\ regionalState'[requests[i].regionalIndex]
                  /\ "returning_to_user" \notin Range(paths'[i])
          /\ Enters(i, "returning_to_user") /\ Missed(i)
               => /\ StoredIn(log', "edge", requests[i].edgeIndex)
                  /\ edgesState'[requests[i].edgeIndex]
                  /\ "returning_to_edge_from_regional" \in Range(paths[i])
          /\ Enters(i, "done") /\ Missed(i)
               => /\ "returning_to_edge_from_regional" \in Range(paths[i])
                  /\ "returning_to_user" \in Range(paths[i])]_vars

C29_Witness ==
  /\ runIndex = 1 /\ requests # <<>>
  /\ requests[1].state = "done" /\ Missed(1)
  /\ requests[3].state = "done" /\ Missed(3)

-----------------------------------------------------------------------------
(* The invalidation state machine.                                         *)

\* What one event does in a frame with timestamp now, whatever else is listed.
Advance(inv, now) ==
  IF inv.state = "traveling" /\ now - inv.startTime >= inv.duration
    THEN [inv EXCEPT !.state = "pulsing", !.startTime = now, !.duration = cacheStoreMs]
  ELSE IF inv.state = "pulsing" /\ now - inv.startTime >= inv.duration
    THEN [inv EXCEPT !.state = "done"]
  ELSE inv

\* The events of the list that complete their pulse at now, and the others
\* as they are after the frame.
Completing(now) == {k \in DOMAIN invalidations : Advance(invalidations[k], now).state = "done"}
RECURSIVE Survivors(_, _)
Survivors(k, now) ==
  IF k > Len(invalidations) THEN <<>>
  ELSE (IF k \in Completing(now) THEN <<>> ELSE <<Advance(invalidations[k], now)>>)
       \o Survivors(k + 1, now)

FlagOf(type, n, edges, regionals) == IF type = "edge" THEN edges[n] ELSE regionals[n]

\* C30: every invalidation event moves only traveling to pulsing to done, by
\* its own start time and duration; the invalidation clears a node's cached
\* flag exactly in the frame in which an event on that node completes its
\* pulse, not while the event is traveling or pulsing; an event that is done
\* is off the list at the end of that frame.
C30_InvalidationStateMachine ==
  /\ [](\A k \in DOMAIN invalidations : invalidations[k].state \in {"traveling", "pulsing"})
  /\ [][/\ FrameIn(log') =>
             \E f \in log' :
               /\ f.kind = "frame"
               /\ invalidations' = Survivors(1, f.index)
               /\ \A k \in Completing(f.index) :
                    /\ InvalidatedIn(log', invalidations[k].type, invalidations[k].targetIndex)
                    /\ ~FlagOf(invalidations[k].type, invalidations[k].targetIndex,
                               edgesState', regionalState')
               /\ \A e \in Edges :
                    InvalidatedIn(log', "edge", e) =>
                      \E k \in Completing(f.index) :
                        invalidations[k].type = "edge" /\ invalidations[k].targetIndex = e
               /\ \A r \in Regionals :
                    InvalidatedIn(log', "regional", r) =>
                      \E k \in Completing(f.index) :
                        invalidations[k].type = "regional" /\ invalidations[k].targetIndex = r
        /\ ~FrameIn(log') =>
             /\ \A k \in DOMAIN invalidations :
                  k \in DOMAIN invalidations' /\ invalidations'[k] = invalidations[k]
             /\ ~\E ev \in log' : ev.kind = "invalidated"
        /\ \A e \in DOMAIN edgesState :
             edgesState[e] /\ e \in DOMAIN edgesState' /\ ~edgesState'[e]
               => InvalidatedIn(log', "edge", e) \/ ClearedIn(log')
        /\ \A r \in DOMAIN regionalState :
             regionalState[r] /\ r \in DOMAIN regionalState' /\ ~regionalState'[r]
               => InvalidatedIn(log', "regional", r) \/ ClearedIn(log')]_vars

\* An event has completed and cleared its node while a later event on the
\* same node is still on its way.
C30_Witness ==
  /\ Len(invalidations) = 1
  /\ invalidations[1].state \in {"traveling", "pulsing"}
  /\ InvalidatedIn(log, invalidations[1].type, invalidations[1].targetIndex)

-----------------------------------------------------------------------------
(* The order of work within a frame.                                       *)

\* renderFrame has run exactly once in this step: called by a handler, or as
\* the only frame callback pending when the browser delivered the frame.
SingleRender == FrameIn(log') /\ (lastFrame' # lastFrame => Len(rafCallbacks) = 1)

\* Something is under way: a request that has started and is not done, or a
\* listed invalidation.
ActiveAtStart ==
  \/ \E i \in DOMAIN requests : requests[i].state \notin {"pending", "done"}
  \/ invalidations # <<>>

\* C31: in a frame the requests are advanced before the invalidations, and
\* both before the decision to go on: a node stored by a request and
\* invalidated in the same frame is not cached at the end of the frame, and
\* a frame that began with a request or an invalidation under way requests
\* the next frame.
C31_RequestsThenInvalidationsThenDecision ==
  [][/\ \A e \in Edges :
          StoredIn(log', "edge", e) /\ InvalidatedIn(log', "edge", e) => ~edgesState'[e]
     /\ \A r \in Regionals :
          StoredIn(log', "regional", r) /\ InvalidatedIn(log', "regional", r)
            => ~regionalState'[r]
     /\ SingleRender /\ ActiveAtStart
          => rafCallbacks' # <<>> /\ rafCallbacks'[Len(rafCallbacks')] = rafId']_vars

\* A node has been stored and invalidated in the same frame.
C31_Witness ==
  \E r \in Regionals : StoredIn(log, "regional", r) /\ InvalidatedIn(log, "regional", r)

\* C32: in a started animator that is not destroyed, isPlaying is true
\* exactly when a frame callback is pending, and state.rafId is set exactly
\* when the callback it names is pending.
C32_PlayingIffCallbackPending ==
  started /\ ~destroyed =>
    /\ isPlaying <=> rafCallbacks # <<>>
    /\ rafId # Null <=> rafId \in Range(rafCallbacks)

-----------------------------------------------------------------------------
(* Hits.                                                                   *)

Visited(i) == Range(paths[i])
Stores(l) == {ev \in l : ev.kind = "store"}

\* C33: a request that takes edge_hit_return never enters
\* traveling_to_regional, fetching_origin, storing_regional or storing_edge and
\* sets no cached flag; one that takes regional_hit_return never enters
\* fetching_origin or storing_regional, sets no regional flag and sets only
\* the flag of its own edge. Every flag a step sets is set by a request that
\* ends its store at that node, and a regional flag only by one that missed
\* (the request is looked up in the batch, unless the step replaced the batch).
C33_HitBypassesDeeperTiers ==
  /\ [](\A i \in DOMAIN requests :
          /\ "edge_hit_return" \in Visited(i) =>
               Visited(i) \cap {"traveling_to_regional", "fetching_origin", "storing_regional",
                                "regional_hit_return", "returning_to_edge_from_regional",
                                "storing_edge", "returning_to_user"} = {}
          /\ "regional_hit_return" \in Visited(i) =>
               Visited(i) \cap {"fetching_origin", "storing_regional",
                                "returning_to_edge_from_regional", "edge_hit_return"} = {})
  /\ [][/\ \A ev \in Stores(log') :
             SeedIn(log') \/ \E i \in DOMAIN requests :
               IF ev.tier = "regional"
                 THEN /\ Enters(i, "returning_to_edge_from_regional")
                      /\ requests[i].regionalIndex = ev.index
                      /\ Visited(i) \cap {"edge_hit_return", "regional_hit_return"} = {}
                 ELSE /\ Enters(i, "returning_to_user")
                      /\ requests[i].edgeIndex = ev.index
                      /\ "edge_hit_return" \notin Visited(i)
        /\ \A e \in DOMAIN edgesState :
             e \in DOMAIN edgesState' /\ ~edgesState[e] /\ edgesState'[e]
               => StoredIn(log', "edge", e)
        /\ \A r \in DOMAIN regionalState :
             r \in DOMAIN regionalState' /\ ~regionalState[r] /\ regionalState'[r]
               => StoredIn(log', "regional", r)]_vars

\* The second request has hit at the regional cache and the fourth at its edge.
C33_Witness ==
  /\ Len(requests) = usersCount
  /\ requests[2].state = "done" /\ "regional_hit_return" \in Visited(2)
  /\ requests[4].state = "done" /\ "edge_hit_return" \in Visited(4)
  /\ edgesState[requests[2].edgeIndex]

-----------------------------------------------------------------------------
(* Stage durations.                                                        *)

\* The fixed duration of each stage, as the specification lists them.
StageMs(s) ==
  CASE s \in {"traveling_to_edge", "traveling_to_regional"} -> requestTravelMs
    [] s = "fetching_origin" -> fetchFromOriginMs
    [] s \in {"storing_regional", "storing_edge"} -> cacheStoreMs
    [] s \in {"regional_hit_return", "returning_to_edge_from_regional",
              "returning_to_user", "edge_hit_return"} -> hitTravelMs
FullMissMs ==
  StageMs("traveling_to_edge") + StageMs("traveling_to_regional")
    + StageMs("fetching_origin") + StageMs("storing_regional")
    + StageMs("returning_to_edge_from_regional") + StageMs("storing_edge")
    + StageMs("returning_to_user")

\* Request i leaves the state it is in, in a step that keeps the batch.
Leaves(i) ==
  /\ i \in DOMAIN requests' /\ ~SeedIn(log')
  /\ requests[i].state \notin {"pending", "done"}
  /\ requests'[i].state # requests[i].state

\* C34: a request leaves a stage only in a frame whose timestamp is at least
\* the stage's duration after the timestamp at which it entered the stage; a
\* full-miss request started by its predecessor's completion is done no
\* earlier than the seven durations after it left pending.
C34_StagesLastTheirDuration ==
  [][\A i \in DOMAIN requests :
       /\ Leaves(i) =>
            \E f \in log' : f.kind = "frame"
                            /\ f.index - requests[i].t0 >= StageMs(requests[i].state)
       /\ Leaves(i) /\ requests'[i].state = "done" /\ Missed(i) /\ i \in 2 .. usersCount
            => \E f \in log' : f.kind = "frame"
                               /\ f.index - requests[i].startAt >= FullMissMs]_vars

\* The third request has gone the full miss path.
C34_Witness ==
  /\ Len(requests) = usersCount /\ seeded = 1
  /\ requests[3].state = "done" /\ paths[3] = FullMissPath
  /\ lastFrame - requests[3].startAt >= FullMissMs

-----------------------------------------------------------------------------
(* One change of state per frame.                                          *)

\* The number of changes of state request i makes in the step.
ChangesIn(i) == Len(paths'[i]) - Len(paths[i])

\* C35: in a step that renders, a request changes state at most once beyond
\* leaving pending, and a stage it enters starts at the frame's timestamp,
\* whatever time has passed since the stage it left was due to end.
C35_OneChangePerFrame ==
  [][~SeedIn(log') =>
       \A i \in DOMAIN requests :
         /\ i \in DOMAIN requests' /\ i \in DOMAIN paths /\ i \in DOMAIN paths'
         /\ ChangesIn(i) <= (IF requests[i].state = "pending" THEN 2 ELSE 1)
         /\ requests'[i].state \notin {requests[i].state, "done"} =>
              \E f \in log' : f.kind = "frame" /\ requests'[i].t0 = f.index]_vars

\* A request has left traveling_to_edge, for a hit at its edge, in a frame
\* later than the end of the travel by the duration of the return or more.
C35_Witness ==
  \E i \in 2 .. usersCount :
    /\ i \in DOMAIN requests /\ requests[i].state = "edge_hit_return"
    /\ requests[i].t0 = lastFrame
    /\ requests[i].t0 - requests[i].startAt >= StageMs("traveling_to_edge") + StageMs("edge_hit_return")

-----------------------------------------------------------------------------
(* Resizing.                                                               *)

\* The step is the resize timeout firing.
ResizeFires ==
  /\ \E t \in timeouts : t.kind = "resize" /\ t.due <= clock
  /\ ~\E t \in timeouts' : t.kind = "resize"
  /\ resizeTimer' = resizeTimer /\ destroyed' = destroyed /\ clock' = clock

SameSimulation(w) ==
  /\ w.edgesState = edgesState /\ w.regionalState = regionalState
  /\ w.requests = requests /\ w.invalidations = invalidations

\* C36: once started, sizeCanvas() leaves every cached flag, the requests and
\* the invalidations as they are, and every request's edge is its user's
\* assigned edge and its regional floor(edge * regionalCount / edgesCount),
\* both of them nodes of the layout; a resize timeout that fires while the
\* loop plays changes none of them.
C36_ResizeKeepsSimulation ==
  /\ [](started =>
          LET w == sizeCanvas(World)
          IN  /\ SameSimulation(w)
              /\ \A i \in DOMAIN requests :
                   /\ requests[i].edgeIndex = assignedEdgeIndex(requests[i].userIndex)
                   /\ requests[i].regionalIndex = (requests[i].edgeIndex * regionalCount) \div edgesCount
                   /\ requests[i].edgeIndex \in DOMAIN w.edgesState
                   /\ requests[i].regionalIndex \in DOMAIN w.regionalState)
  /\ [][ResizeFires /\ isPlaying =>
          /\ edgesState' = edgesState /\ regionalState' = regionalState
          /\ requests' = requests /\ invalidations' = invalidations]_vars

\* The resize timeout has fired with a node cached and a request on its way.
C36_Witness ==
  /\ started /\ ~destroyed /\ isPlaying
  /\ resizeTimer # Null /\ ~\E t \in timeouts : t.kind = "resize"
  /\ \E r \in Regionals : regionalState[r]
  /\ \E i \in DOMAIN requests : requests[i].state \notin {"pending", "done"}

-----------------------------------------------------------------------------
(* Node counts and assigned edges.                                         *)

\* C37: once the layout is computed there are usersCount users, edgesCount
\* edges, 2 regionals and 1 origin, every user's assignedEdgeIndex is in
\* 0 .. edgesCount - 1 whatever integers userEdgeMap gives, and no request is
\* skipped for a node that does not exist.
C37_AssignedEdgeInRange ==
  layout.users # <<>> =>
    /\ Cardinality(DOMAIN layout.users) = usersCount
    /\ Cardinality(DOMAIN layout.edges) = edgesCount
    /\ Cardinality(DOMAIN layout.regionals) = 2
    /\ layout.origins = 1
    /\ \A i \in DOMAIN layout.users : layout.users[i] \in 0 .. edgesCount - 1
    /\ layout.processed => layout.skipped = {}

\* The same for the maps that give no value below 0.
AssignedEdgeInRangeFromZeroUp ==
  layout.users # <<>> /\ (\A k \in DOMAIN layout.map : layout.map[k] >= 0) =>
    /\ \A i \in DOMAIN layout.users : layout.users[i] \in 0 .. edgesCount - 1
    /\ layout.processed => layout.skipped = {}

-----------------------------------------------------------------------------
(* Overlapping navigation.                                                 *)

\* No fetch of a fragment and no activation timeout is pending.
DeckQuiet == deck.loads = <<>> /\ deck.activations = <<>>

\* C38: whatever the order in which overlapping goToSlide calls get their
\* fragments, currentSlide is in 1 .. totalSlides, at most one slide is
\* active, and with no fetch and no timeout pending the active slide is
\* slide number currentSlide.
C38_ActiveIsCurrentWhenQuiet ==
  /\ deck.currentSlide \in 1 .. totalSlides
  /\ deck.active \in 0 .. totalSlides
  /\ DeckQuiet => deck.active = deck.currentSlide

\* Calls have overlapped, have all completed, and the deck has moved.
C38_Witness ==
  /\ deck.overlapped /\ DeckQuiet
  /\ deck.currentSlide # 1 /\ deck.active = deck.currentSlide

====
